---- MODULE Spec2Model ----
(***************************************************************************)
(* Model of python-unitex: unitex/processor.py (UnitexProcessor) and the   *)
(* file gateway of unitex/io.py.                                           *)
(*                                                                         *)
(* A path is a sequence of lexical tokens: the separator "/", the dot ".", *)
(* the virtual-filesystem prefix, and name fragments that contain neither  *)
(* a separator nor a dot.  Every call that leaves the Python layer (file   *)
(* gateway, engine stage, persistent-resource load/free) is appended to    *)
(* the log `calls` of the handler that made it.                            *)
(***************************************************************************)
EXTENDS Naturals, Sequences, FiniteSets, TLC

VARIABLES
    config,             \* self.__config (persistence, virtualization, resources)
    persisted_objects,  \* self.__persisted_objects
    txt, snt, dir,      \* self.__txt, self.__snt, self.__dir
    disk, dirs, vfs,    \* files on disk, directories on disk, virtual files
    freed,              \* per resource: how many times its handle was freed
    loads,              \* the load_persistent_* calls made by __init__
    calls,              \* external calls made by the last handler, in order
    err,                \* exception raised by the last handler (NoErr if none)
    op, args,           \* the last handler and its arguments
    alive,              \* FALSE once __del__ has run
    result,             \* the value the last handler returned (None if none)
    yielded,            \* the records the last handler yielded, in order
    file                \* a UnitexFile: its __path, __mode and __use_bom

vars == <<config, persisted_objects, txt, snt, dir, disk, dirs, vfs, freed,
          loads, calls, err, op, args, alive, result, yielded, file>>

(***************************************************************************)
(* Bounds                                                                  *)
(***************************************************************************)
MaxDicts == 2
MaxFrees == 1
MaxLines == 2
MaxBody == 3

(***************************************************************************)
(* Values                                                                  *)
(***************************************************************************)
None == <<"None">>

NoErr == "no exception"

VFS_PREFIX == "$:"

RESOURCE_ALPHABET == "alphabet"
RESOURCE_GRAMMAR == "grammar"
RESOURCE_DICTIONARY == "dictionary"

MATCH_MODE_LONGEST == "longest"
MATCH_MODE_SHORTEST == "shortest"

OUTPUT_MODE_IGNORE == "ignore"
OUTPUT_MODE_MERGE == "merge"
OUTPUT_MODE_REPLACE == "replace"

NoRes == [tag |-> "None", name |-> <<"", 0>>]

ResPath(kind, i) == [tag |-> "path", name |-> <<kind, i>>]

ResourceNames ==
    {<<"alphabet", 0>>, <<"alphabet-sorted", 0>>, <<"sentence", 0>>, <<"replace", 0>>}
        \cup {<<"dictionary", i>> : i \in 1..MaxDicts}

\* two inputs that share their directory and base name, one of them with the
\* extension the normalized text gets
InputPaths ==
    { <<"corpus", "/", "foo", ".", "txt">>,
      <<"corpus", "/", "foo", ".", "snt">> }

\* input paths by their parts: directory, file name without its last
\* extension, last extension
CorpusParts ==
    { [directory |-> <<"corpus">>, name |-> <<"foo">>, extension |-> <<".", "txt">>],
      [directory |-> <<"corpus">>, name |-> <<"foo">>, extension |-> <<".", "snt">>],
      [directory |-> <<"a", "/", "b">>, name |-> <<"foo", ".", "tar">>,
       extension |-> <<".", "gz">>],
      [directory |-> <<>>, name |-> <<"foo">>, extension |-> <<".", "txt">>],
      [directory |-> <<"/", "data">>, name |-> <<"foo">>, extension |-> <<".", "txt">>],
      [directory |-> <<"v1", ".", "2">>, name |-> <<"foo">>, extension |-> <<>>] }

\* the directory of an input path, with the separator that follows it
DirectoryPrefix(r) == IF r.directory = <<>> THEN <<>> ELSE r.directory \o <<"/">>

PathOf(r) == DirectoryPrefix(r) \o r.name \o r.extension

CorpusPaths == { PathOf(r) : r \in CorpusParts }

\* <<match mode, output mode>> given to iter and tag
ModePairs ==
    { <<MATCH_MODE_LONGEST, OUTPUT_MODE_MERGE>>, <<MATCH_MODE_SHORTEST, OUTPUT_MODE_IGNORE>>,
      <<MATCH_MODE_LONGEST, OUTPUT_MODE_REPLACE>>, <<"greedy", OUTPUT_MODE_MERGE>>,
      <<MATCH_MODE_LONGEST, "xml">> }

TagModePairs ==
    { <<MATCH_MODE_SHORTEST, OUTPUT_MODE_MERGE>>, <<"greedy", OUTPUT_MODE_MERGE>>,
      <<MATCH_MODE_LONGEST, "xml">> }

\* the grammar and the output path given to iter and tag
Grammar == ResPath("grammar", 0)

TaggedOutput == <<"tagged", ".", "xml">>

\* the grammars given to tag when the query attribute matters
Grammars == {ResPath("grammar", 0), ResPath("tagger", 0)}

\* a line of the index file the engine writes: <start> <end> [match-text]
IndexLine(start, end, text) ==
    start \o <<" ">> \o end \o (IF text = None THEN <<>> ELSE <<" ">> \o text)

Texts == { <<>>, <<" ", "H">>, <<"H", " ", "W">> }

\* the record lines, an empty line and a line of white space
IndexLines ==
    { IndexLine(<<"0">>, <<"5">>, text) : text \in Texts \cup {None} }
        \cup { IndexLine(<<"1", "1">>, <<"5">>, text) : text \in {None, <<"H", " ", "W">>} }
        \cup { <<>>, <<" ">> }

\* a header that looks like a record, and an empty one
Headers == { <<"0", " ", "5", " ", "H">>, <<>> }

\* "\n".join(lines)
RECURSIVE Join(_)
Join(lines) ==
    IF Len(lines) = 0 THEN <<>>
    ELSE IF Len(lines) = 1 THEN lines[1]
    ELSE lines[1] \o <<"\n">> \o Join(Tail(lines))

\* a header, then at most MaxLines lines
AllIndexFiles ==
    { Join(<<header>> \o lines) :
          header \in Headers,
          lines \in UNION { [1..n -> IndexLines] : n \in 0..MaxLines } }

\* the index file iter reads when its content is not what matters
IndexFiles ==
    { Join(<< <<"a", "b", "c">>, IndexLine(<<"0">>, <<"5">>, <<"H">>), <<>>,
              IndexLine(<<"1", "1">>, <<"5">>, None) >>) }

\* the merged text tag reads when its content is not what matters
MergedBodies == { <<"A", " ", "&", " ", "B">> }

\* every merged text of at most MaxBody characters
AllBodies == UNION { [1..n -> {"A", "&", ";"}] : n \in 0..MaxBody }

\* the paths the file gateway is called with: a disk file, its virtual copy,
\* a virtual file below the working directory, and the two directories
DiskFile == <<"corpus", "/", "foo", ".", "txt">>

WorkDir == <<"corpus", "/", "foo_snt">>

GatewayFiles ==
    { DiskFile, <<VFS_PREFIX>> \o DiskFile, <<VFS_PREFIX>> \o WorkDir \o <<"/", "dlf">> }

GatewayPaths == GatewayFiles \cup { WorkDir, <<VFS_PREFIX>> \o WorkDir }

\* the modes a file handle is opened with: the default, the four that are
\* documented and one that is not
FileModes == { None, <<"r">>, <<"b">>, <<"w">>, <<"a">>, <<"x">> }

\* <<mode, tagged>> given to open
OpenModes ==
    { << <<"s", "r", "t", "l">>, FALSE >>, << <<"s", "r", "t", "l">>, TRUE >>,
      << <<"t", "s">>, FALSE >>, << <<"l", "r">>, FALSE >>, << <<"l", "r">>, TRUE >> }

(***************************************************************************)
(* os.path                                                                 *)
(***************************************************************************)
LastIndexOf(c, p) ==
    IF \E i \in DOMAIN p : p[i] = c
    THEN CHOOSE i \in DOMAIN p : p[i] = c /\ \A j \in DOMAIN p : p[j] = c => j <= i
    ELSE 0

RECURSIVE rstrip_sep(_)
rstrip_sep(p) ==
    IF Len(p) > 0 /\ p[Len(p)] = "/" THEN rstrip_sep(SubSeq(p, 1, Len(p) - 1)) ELSE p

\* os.path.split: <<head, tail>>; tail has no separator, head has its
\* trailing separators stripped unless it consists of separators only.
split(p) ==
    LET i == LastIndexOf("/", p)
        head == SubSeq(p, 1, i)
        tail == SubSeq(p, i + 1, Len(p))
    IN  <<IF \A k \in DOMAIN head : head[k] = "/" THEN head ELSE rstrip_sep(head), tail>>

\* os.path.splitext on a file name: the extension starts at the last dot,
\* provided some character that is not a dot precedes it.
splitext(f) ==
    LET j == LastIndexOf(".", f)
    IN  IF j > 0 /\ \E k \in 1..(j - 1) : f[k] # "."
        THEN <<SubSeq(f, 1, j - 1), SubSeq(f, j, Len(f))>>
        ELSE <<f, <<>> >>

join(a, b) ==
    IF Len(b) > 0 /\ b[1] = "/" THEN b
    ELSE IF Len(a) = 0 \/ a[Len(a)] = "/" THEN a \o b
    ELSE a \o <<"/">> \o b

(***************************************************************************)
(* Handler-local state: the log of external calls, the pending exception   *)
(* and the stores the calls act on.  Once an exception is pending, every   *)
(* later statement of the handler is skipped.                              *)
(***************************************************************************)
\* a call, with the success flag it returned
Call(fn, path, res, opt) ==
    [fn |-> fn, path |-> path, res |-> res, opt |-> opt, ret |-> TRUE]

Returned(c, ret) == [c EXCEPT !.ret = ret]

Enter == [calls |-> <<>>, err |-> NoErr, disk |-> disk, dirs |-> dirs,
          vfs |-> vfs, freed |-> freed, result |-> None, yielded |-> <<>>]

return(st, value) == [st EXCEPT !.result = value]

Invoke(st, c) == [st EXCEPT !.calls = Append(@, c)]

raise(st, msg) == [st EXCEPT !.err = msg]

(***************************************************************************)
(* unitex/io.py: the file gateway over the native stores                   *)
(***************************************************************************)
startswith(p, q) == Len(q) <= Len(p) /\ SubSeq(p, 1, Len(q)) = q

IsVirtual(p) == startswith(p, <<VFS_PREFIX>>)

\* unitex_ls on a virtual path: the virtual files whose path starts with it
ls(store, p) == {f \in store : startswith(f, p)}

os_path_exists(st, p) == p \in st.disk \cup st.dirs

exists(st, p) ==
    IF ~IsVirtual(p) THEN os_path_exists(st, p) ELSE p \in ls(st.vfs, p)

AddFile(st, f) ==
    IF IsVirtual(f) THEN [st EXCEPT !.vfs = @ \cup {f}]
    ELSE [st EXCEPT !.disk = @ \cup {f}]

\* a call that succeeds leaves the file f
Produce(st, ret, f) == IF ret THEN AddFile(st, f) ELSE st

cp(st, source_path, target_path) ==
    LET ok == exists(st, source_path)
    IN  Produce(Invoke(st, Returned(Call("cp", source_path, <<>>, target_path), ok)),
                ok, target_path)

rm(st, path) ==
    LET s1 == Invoke(st, Call("rm", path, <<>>, <<>>))
    IN  IF IsVirtual(path) THEN [s1 EXCEPT !.vfs = @ \ {path}]
        ELSE [s1 EXCEPT !.disk = @ \ {path}]

mkdir(st, path) ==
    [Invoke(st, Call("mkdir", path, <<>>, <<>>)) EXCEPT !.dirs = @ \cup {path}]

\* unitex_rmdir removes the directory with the files below it
rmdir(st, path) ==
    [Invoke(st, Call("rmdir", path, <<>>, <<>>))
        EXCEPT !.dirs = @ \ {path},
               !.disk = {f \in @ : ~startswith(f, path \o <<"/">>)}]

\* exists as a call of its own: the store it consults is logged
io_exists_consults_disk(st, path) ==
    return(Invoke(st, Call("os.path.exists", path, <<>>, <<>>)),
           IF os_path_exists(st, path) THEN <<"True">> ELSE <<"False">>)

io_exists(st, path) ==
    IF ~startswith(path, <<VFS_PREFIX>>)
    THEN return(Invoke(st, Call("os.path.exists", path, <<>>, <<>>)),
                IF os_path_exists(st, path) THEN <<"True">> ELSE <<"False">>)
    ELSE return(Invoke(st, Call("ls", path, <<>>, <<>>)),
                IF path \in ls(st.vfs, path) THEN <<"True">> ELSE <<"False">>)

(***************************************************************************)
(* unitex/io.py: UnitexFile                                                *)
(***************************************************************************)
\* __init__
UnitexFile == [path |-> None, mode |-> None, use_bom |-> None]

\* the data a read returns stands for the content of the file read
ContentOf(path) == <<"content of">> \o path

\* a handler of the file handle returns the handler-local state and the handle
Handled(st, self) == [st |-> st, self |-> self]

\* faulty variant of UnitexFile_open: the handle is pointed at the new file
UnitexFile_open_unguarded(st, self, f, mode, use_bom) ==
    Handled(st, [path |-> f, mode |-> IF mode = None THEN <<"r">> ELSE mode,
                 use_bom |-> use_bom])

UnitexFile_open(st, self, f, mode, use_bom) ==
    IF self.path # None
    THEN Handled(raise(st, "You must close the current file (%s) before open another one..."),
                 self)
    ELSE Handled(st, [path |-> f, mode |-> IF mode = None THEN <<"r">> ELSE mode,
                      use_bom |-> use_bom])

UnitexFile_close(st, self) ==
    IF self.path = None
    THEN Handled(raise(st, "There is no file to close..."), self)
    ELSE Handled(st, [self EXCEPT !.path = None, !.mode = None])

\* unitex_write_file and unitex_append_to_file leave the file in its store
unitex_write_file(st, path, data, bom) ==
    AddFile(Invoke(st, Call("unitex_write_file", path, <<>>, data \o <<bom>>)), path)

unitex_append_to_file(st, path, data) ==
    AddFile(Invoke(st, Call("unitex_append_to_file", path, <<>>, data)), path)

\* faulty variant of UnitexFile_write: every mode but "w" appends
UnitexFile_write_any_mode(st, self, data) ==
    IF self.path = None
    THEN Handled(raise(st, "You must open a file before writing..."), self)
    ELSE IF self.mode = <<"w">>
    THEN Handled(unitex_write_file(st, self.path, data,
                                   IF self.use_bom = <<"True">> THEN "1" ELSE "0"),
                 self)
    ELSE Handled(unitex_append_to_file(st, self.path, data), self)

UnitexFile_write(st, self, data) ==
    IF self.path = None
    THEN Handled(raise(st, "You must open a file before writing..."), self)
    ELSE IF self.mode \notin {<<"w">>, <<"a">>}
    THEN Handled(raise(st, "File '%s' is opened in read mode..."), self)
    ELSE IF self.mode = <<"w">>
    THEN Handled(unitex_write_file(st, self.path, data,
                                   IF self.use_bom = <<"True">> THEN "1" ELSE "0"),
                 self)
    ELSE Handled(unitex_append_to_file(st, self.path, data), self)

UnitexFile_read(st, self) ==
    IF self.path = None
    THEN Handled(raise(st, "You must open a file before reading..."), self)
    ELSE IF self.mode \notin {<<"r">>, <<"b">>}
    THEN Handled(raise(st, "File '%s' is opened in write/append mode..."), self)
    ELSE IF self.mode = <<"r">>
    THEN Handled(return(Invoke(st, Call("unitex_read_file", self.path, <<>>, <<>>)),
                        ContentOf(self.path)),
                 self)
    ELSE Handled(return(Invoke(st, Call("unitex_read_binary_file", self.path, <<>>, <<>>)),
                        ContentOf(self.path)),
                 self)

(***************************************************************************)
(* The native engine: where a stage that succeeds leaves its output        *)
(***************************************************************************)
snt_of(p) ==
    LET sp == split(p)
    IN  join(sp[1], splitext(sp[2])[1] \o <<".", "snt">>)

snt_dir_of(p) ==
    LET sp == split(p)
    IN  join(sp[1], splitext(sp[2])[1] \o <<"_snt">>)

normalize(st, text, ret) ==
    Produce(Invoke(st, Returned(Call("normalize", text, <<>>, <<>>), ret)), ret,
            snt_of(text))

fst2txt(st, grammar, text, alphabet, merge, ret) ==
    Invoke(st, Returned(Call("fst2txt", text, <<grammar, alphabet>>,
                             IF merge THEN <<"merge">> ELSE <<>>), ret))

tokenize(st, text, alphabet, ret) ==
    Produce(Invoke(st, Returned(Call("tokenize", text, <<alphabet>>, <<>>), ret)), ret,
            join(snt_dir_of(text), <<"tokens", ".", "txt">>))

dico(st, dictionaries, text, alphabet, ret) ==
    Produce(Invoke(st, Returned(Call("dico", text, dictionaries \o <<alphabet>>, <<>>),
                                ret)), ret,
            join(snt_dir_of(text), <<"dlf">>))

(***************************************************************************)
(* Persistent resources (unitex/resources.py) and UnitexProcessor._load    *)
(***************************************************************************)
NoList == [tag |-> "None", items |-> <<>>]

List(items) == [tag |-> "list", items |-> items]

Handle(path) == [tag |-> "handle", name |-> path.name]

load_persistent(fn, path) == [fn |-> fn, path |-> path, object |-> Handle(path)]

\* faulty variant of LoadResource: the path stays in the configuration
LoadResource_keeps_path(acc, key, type, fn) ==
    IF acc.config.resources[key] = NoRes THEN acc
    ELSE LET ld == load_persistent(fn, acc.config.resources[key])
         IN  [config |-> acc.config,
              persisted_objects |->
                  List(Append(acc.persisted_objects.items,
                              [type |-> type, object |-> ld.object])),
              loads |-> Append(acc.loads, [fn |-> ld.fn, path |-> ld.path])]

\* one "if resource is not None: load, track, substitute" block of _load
LoadResource(acc, key, type, fn) ==
    IF acc.config.resources[key] = NoRes THEN acc
    ELSE LET ld == load_persistent(fn, acc.config.resources[key])
         IN  [config |-> [acc.config EXCEPT !.resources[key] = ld.object],
              persisted_objects |->
                  List(Append(acc.persisted_objects.items,
                              [type |-> type, object |-> ld.object])),
              loads |-> Append(acc.loads, [fn |-> ld.fn, path |-> ld.path])]

RECURSIVE LoadDictionaries(_, _)
LoadDictionaries(acc, i) ==
    LET ds == acc.config.resources.dictionaries.items
    IN  IF i > Len(ds) THEN acc
        ELSE LET ld == load_persistent("load_persistent_dictionary", ds[i])
             IN  LoadDictionaries(
                    [config |-> [acc.config EXCEPT
                                    !.resources.dictionaries.items[i] = ld.object],
                     persisted_objects |->
                         List(Append(acc.persisted_objects.items,
                                     [type |-> RESOURCE_DICTIONARY, object |-> ld.object])),
                     loads |-> Append(acc.loads, [fn |-> ld.fn, path |-> ld.path])],
                    i + 1)

_load(cfg) ==
    IF ~cfg.persistence
    THEN [config |-> cfg, persisted_objects |-> NoList, loads |-> <<>>]
    ELSE LET a0 == [config |-> cfg, persisted_objects |-> List(<<>>), loads |-> <<>>]
             a1 == LoadResource(a0, "alphabet", RESOURCE_ALPHABET, "load_persistent_alphabet")
             a2 == LoadResource(a1, "alphabet_sorted", RESOURCE_ALPHABET, "load_persistent_alphabet")
             a3 == LoadResource(a2, "sentence", RESOURCE_GRAMMAR, "load_persistent_fst2")
             a4 == LoadResource(a3, "replace", RESOURCE_GRAMMAR, "load_persistent_fst2")
         IN  IF a4.config.resources.dictionaries = NoList THEN a4
             ELSE LoadDictionaries(a4, 1)

(***************************************************************************)
(* UnitexProcessor._free                                                   *)
(***************************************************************************)
\* faulty variant of free_function: the first two branches exchanged
free_function_swapped(type) ==
    IF type = RESOURCE_GRAMMAR THEN "free_persistent_dictionary"
    ELSE IF type = RESOURCE_DICTIONARY THEN "free_persistent_fst2"
    ELSE IF type = RESOURCE_ALPHABET THEN "free_persistent_alphabet"
    ELSE "none"

free_function(type) ==
    IF type = RESOURCE_GRAMMAR THEN "free_persistent_fst2"
    ELSE IF type = RESOURCE_DICTIONARY THEN "free_persistent_dictionary"
    ELSE IF type = RESOURCE_ALPHABET THEN "free_persistent_alphabet"
    ELSE "none"

free_persistent(st, fn, object) ==
    [Invoke(st, Call(fn, None, <<object>>, <<>>))
        EXCEPT !.freed[object.name] = @ + 1]

RECURSIVE FreeLoop(_, _, _)
FreeLoop(st, objects, i) ==
    IF i > Len(objects) THEN st
    ELSE LET fn == free_function(objects[i].type)
         IN  FreeLoop(IF fn = "none" THEN st
                      ELSE free_persistent(st, fn, objects[i].object),
                      objects, i + 1)

_free(st) ==
    IF st.err # NoErr \/ persisted_objects = NoList THEN st
    ELSE FreeLoop(st, persisted_objects.items, 1)

(***************************************************************************)
(* UnitexProcessor._clean                                                  *)
(***************************************************************************)
Self == [txt |-> txt, snt |-> snt, dir |-> dir]

Orderings(S) ==
    {q \in [1..Cardinality(S) -> S] : \A i, j \in DOMAIN q : q[i] = q[j] => i = j}

RECURSIVE RmEach(_, _, _)
RmEach(st, listing, i) ==
    IF i > Len(listing) THEN st ELSE RmEach(rm(st, listing[i]), listing, i + 1)

\* the virtual working directory listed by _clean (nothing when _clean
\* does not reach the listing)
clean_listing(self) ==
    IF self.txt # None /\ config.virtualization /\ self.dir # None
    THEN ls(vfs, <<VFS_PREFIX>> \o self.dir)
    ELSE {}

\* faulty variant of _clean: the working directory is removed before the files
_clean_rmdir_first(st, self, listing) ==
    IF self.txt = None THEN st
    ELSE LET s0 == rmdir(st, self.dir)
         IN  IF config.virtualization
             THEN LET a == IF self.dir # None
                           THEN RmEach(Invoke(s0, Call("ls", <<VFS_PREFIX>> \o self.dir,
                                                       <<>>, <<>>)),
                                       listing, 1)
                           ELSE s0
                      b == rm(a, self.snt)
                  IN  rm(b, self.txt)
             ELSE rm(s0, self.snt)

\* `listing` is what ls returned, in the order it returned it
_clean(st, self, listing) ==
    IF self.txt = None THEN st
    ELSE LET s1 == IF config.virtualization
                   THEN LET a == IF self.dir # None
                                 THEN RmEach(Invoke(st, Call("ls", <<VFS_PREFIX>> \o self.dir,
                                                             <<>>, <<>>)),
                                             listing, 1)
                                 ELSE st
                            b == rm(a, self.snt)
                        IN  rm(b, self.txt)
                   ELSE rm(st, self.snt)
         IN  rmdir(s1, self.dir)

(***************************************************************************)
(* UnitexProcessor: the preprocessing stages                               *)
(***************************************************************************)
_normalize(st, self, ret) ==
    IF st.err # NoErr THEN st
    ELSE LET ok == ret /\ exists(st, self.txt)
             s1 == normalize(st, self.txt, ok)
         IN  IF ~ok THEN raise(s1, "Text normalization failed!") ELSE s1

\* faulty variant of _segment: the sentence grammar is checked after the engine ran
_segment_checks_late(st, self, ret) ==
    LET grammar == config.resources.sentence
        alphabet == config.resources.alphabet
    IN  IF st.err # NoErr THEN st
        ELSE IF alphabet = NoRes
        THEN raise(st, "Unable to segment text. No alphabet file provided.")
        ELSE LET s1 == fst2txt(st, grammar, self.snt, alphabet, TRUE, ret)
             IN  IF grammar = NoRes
                 THEN raise(s1, "Unable to segment text. No sentence grammar provided.")
                 ELSE IF ~ret THEN raise(s1, "Text segmentation failed!") ELSE s1

_segment(st, self, ret) ==
    LET grammar == config.resources.sentence
        alphabet == config.resources.alphabet
    IN  IF st.err # NoErr THEN st
        ELSE IF grammar = NoRes
        THEN raise(st, "Unable to segment text. No sentence grammar provided.")
        ELSE IF alphabet = NoRes
        THEN raise(st, "Unable to segment text. No alphabet file provided.")
        ELSE LET s1 == fst2txt(st, grammar, self.snt, alphabet, TRUE, ret)
             IN  IF ~ret THEN raise(s1, "Text segmentation failed!") ELSE s1

_replace(st, self, ret) ==
    LET grammar == config.resources.replace
        alphabet == config.resources.alphabet
    IN  IF st.err # NoErr THEN st
        ELSE IF grammar = NoRes
        THEN raise(st, "Unable to normalize text. No replace grammar provided.")
        ELSE IF alphabet = NoRes
        THEN raise(st, "Unable to normalize text. No alphabet file provided.")
        ELSE LET s1 == fst2txt(st, grammar, self.snt, alphabet, FALSE, ret)
             IN  IF ~ret THEN raise(s1, "Text normalization failed!") ELSE s1

\* faulty variant of _tokenize: the value the engine returns is not looked at
_tokenize_ignores_ret(st, self, ret) ==
    LET alphabet == config.resources.alphabet
    IN  IF st.err # NoErr THEN st
        ELSE IF alphabet = NoRes
        THEN raise(st, "Unable to tokenize text. No alphabet file provided.")
        ELSE tokenize(st, self.snt, alphabet, ret)

_tokenize(st, self, ret) ==
    LET alphabet == config.resources.alphabet
    IN  IF st.err # NoErr THEN st
        ELSE IF alphabet = NoRes
        THEN raise(st, "Unable to tokenize text. No alphabet file provided.")
        ELSE LET s1 == tokenize(st, self.snt, alphabet, ret)
             IN  IF ~ret THEN raise(s1, "Text tokenization failed!") ELSE s1

\* faulty variant of _lexicalize: only a dictionary list that is None is refused
_lexicalize_none_only(st, self, ret) ==
    LET dictionaries == config.resources.dictionaries
        alphabet == config.resources.alphabet
    IN  IF st.err # NoErr THEN st
        ELSE IF dictionaries = NoList
        THEN raise(st, "Unable to lexicalize text. No dictionaries provided.")
        ELSE IF alphabet = NoRes
        THEN raise(st, "Unable to tokenize text. No alphabet file provided.")
        ELSE LET s1 == dico(st, dictionaries.items, self.snt, alphabet, ret)
             IN  IF ~ret THEN raise(s1, "Text lexicalization failed!") ELSE s1

_lexicalize(st, self, ret) ==
    LET dictionaries == config.resources.dictionaries
        alphabet == config.resources.alphabet
    IN  IF st.err # NoErr THEN st
        ELSE IF dictionaries = NoList \/ Len(dictionaries.items) = 0
        THEN raise(st, "Unable to lexicalize text. No dictionaries provided.")
        ELSE IF alphabet = NoRes
        THEN raise(st, "Unable to tokenize text. No alphabet file provided.")
        ELSE LET s1 == dico(st, dictionaries.items, self.snt, alphabet, ret)
             IN  IF ~ret THEN raise(s1, "Text lexicalization failed!") ELSE s1

(***************************************************************************)
(* UnitexProcessor.open                                                    *)
(***************************************************************************)
In(c, mode) == \E i \in DOMAIN mode : mode[i] = c

\* faulty variant of open_paths: the name ends at the first dot of the file name
open_paths_first_dot(path) ==
    LET sp == split(path)
        directory == sp[1]
        first == IF \E i \in DOMAIN sp[2] : i > 1 /\ sp[2][i] = "."
                 THEN CHOOSE i \in DOMAIN sp[2] :
                        /\ i > 1 /\ sp[2][i] = "."
                        /\ \A j \in 2..(i - 1) : sp[2][j] # "."
                 ELSE Len(sp[2]) + 1
        name == SubSeq(sp[2], 1, first - 1)
    IN  [txt |-> path,
         snt |-> join(directory, name \o <<".", "snt">>),
         dir |-> join(directory, name \o <<"_snt">>)]

\* the session paths derived from the input path
open_paths(path) ==
    LET sp == split(path)
        directory == sp[1]
        name == splitext(sp[2])[1]
    IN  [txt |-> path,
         snt |-> join(directory, name \o <<".", "snt">>),
         dir |-> join(directory, name \o <<"_snt">>)]

\* the session paths after the virtualization block
virtualized(self) ==
    IF config.virtualization
    THEN [self EXCEPT !.txt = <<VFS_PREFIX>> \o self.txt,
                      !.snt = <<VFS_PREFIX>> \o self.snt]
    ELSE self

\* faulty variant of open_session: an open on an open session keeps the session
open_session_keeps_open(before, path) ==
    IF before.txt # None THEN before ELSE virtualized(open_paths(path))

\* the paths open assigns to the session, given those it held before
open_session(before, path) == virtualized(open_paths(path))

\* faulty variant of open: the replace grammar is applied to a tagged text too
open_replaces_tagged(st, self, path, mode, tagged, fail) ==
    LET s1 == IF config.virtualization
              THEN cp(st, path, <<VFS_PREFIX>> \o path)
              ELSE st
        s2 == IF ~os_path_exists(s1, self.dir) THEN mkdir(s1, self.dir) ELSE s1
        s3 == _normalize(s2, self, fail # "normalize")
        s4 == IF ~tagged /\ In("s", mode) THEN _segment(s3, self, fail # "segment") ELSE s3
        s5 == IF In("r", mode) THEN _replace(s4, self, fail # "replace") ELSE s4
        s6 == IF In("t", mode) THEN _tokenize(s5, self, fail # "tokenize") ELSE s5
    IN  IF In("l", mode) THEN _lexicalize(s6, self, fail # "lexicalize") ELSE s6

\* fail: the engine stage that reports failure in this call, if it is reached
open(st, self, path, mode, tagged, fail) ==
    LET s1 == IF config.virtualization
              THEN cp(st, path, <<VFS_PREFIX>> \o path)
              ELSE st
        s2 == IF ~os_path_exists(s1, self.dir) THEN mkdir(s1, self.dir) ELSE s1
        s3 == _normalize(s2, self, fail # "normalize")
        s4 == IF ~tagged /\ In("s", mode) THEN _segment(s3, self, fail # "segment") ELSE s3
        s5 == IF ~tagged /\ In("r", mode) THEN _replace(s4, self, fail # "replace") ELSE s4
        s6 == IF In("t", mode) THEN _tokenize(s5, self, fail # "tokenize") ELSE s5
    IN  IF In("l", mode) THEN _lexicalize(s6, self, fail # "lexicalize") ELSE s6

(***************************************************************************)
(* UnitexProcessor.close                                                   *)
(***************************************************************************)
\* faulty variant of close: the artifacts are removed whatever clean is
close_always_cleans(st, self, clean, free, listing) ==
    LET s1 == _clean(st, self, listing)
    IN  IF free THEN _free(s1) ELSE s1

close(st, self, clean, free, listing) ==
    LET s1 == IF clean THEN _clean(st, self, listing) ELSE st
    IN  IF free THEN _free(s1) ELSE s1

(***************************************************************************)
(* UnitexProcessor._locate, _concord                                       *)
(***************************************************************************)
locate(st, grammar, text, alphabet, match_mode, output_mode, ret, made) ==
    Produce(Invoke(st, Returned(Call("locate", text, <<grammar, alphabet>>,
                                     <<match_mode, output_mode>>), ret)),
            ret /\ made, join(snt_dir_of(text), <<"concord", ".", "ind">>))

concord(st, index, alphabet, output, ret, made) ==
    Produce(Invoke(st, Returned(Call("concord", index, <<alphabet>>, output), ret)),
            ret /\ made, output)

\* os.path.join raises on a None component
os_path_join(st, a, b) ==
    IF a = None THEN raise(st, "TypeError") ELSE return(st, join(a, b))

\* faulty variant of _locate: the modes are validated after the engine ran
_locate_validates_late(st, self, grammar, match_mode, output_mode, ret, made) ==
    LET alphabet == config.resources.alphabet
    IN  IF st.err # NoErr THEN st
        ELSE IF alphabet = NoRes
        THEN raise(st, "Unable to locate pattern. No alphabet file provided.")
        ELSE LET ok == ret /\ self.snt # None /\ exists(st, self.snt)
                 s1 == locate(st, grammar, self.snt, alphabet, match_mode, output_mode,
                              ok, made)
             IN  IF ~ok THEN raise(s1, "Locate failed!")
                 ELSE IF match_mode \notin {MATCH_MODE_LONGEST, MATCH_MODE_SHORTEST}
                 THEN raise(s1, "Wrong value for the 'match_mode' option. UnitexConstants.MATCH_MODE_X required.")
                 ELSE IF output_mode \notin {OUTPUT_MODE_IGNORE, OUTPUT_MODE_MERGE, OUTPUT_MODE_REPLACE}
                 THEN raise(s1, "Wrong value for the 'output_mode' option. UnitexConstants.OUTPUT_MODE_X required.")
                 ELSE LET s2 == os_path_join(s1, self.dir, <<"concord", ".", "ind">>)
                          index == IF config.virtualization
                                   THEN <<VFS_PREFIX>> \o s2.result
                                   ELSE s2.result
                      IN  IF s2.err # NoErr THEN s2
                          ELSE IF ~exists(s2, index)
                          THEN raise(s2, "Locate failed! No index produced.")
                          ELSE return(s2, index)

\* faulty variant of _locate: the index file is not looked for
_locate_trusts_engine(st, self, grammar, match_mode, output_mode, ret, made) ==
    LET alphabet == config.resources.alphabet
    IN  IF st.err # NoErr THEN st
        ELSE IF alphabet = NoRes
        THEN raise(st, "Unable to locate pattern. No alphabet file provided.")
        ELSE IF match_mode \notin {MATCH_MODE_LONGEST, MATCH_MODE_SHORTEST}
        THEN raise(st, "Wrong value for the 'match_mode' option. UnitexConstants.MATCH_MODE_X required.")
        ELSE IF output_mode \notin {OUTPUT_MODE_IGNORE, OUTPUT_MODE_MERGE, OUTPUT_MODE_REPLACE}
        THEN raise(st, "Wrong value for the 'output_mode' option. UnitexConstants.OUTPUT_MODE_X required.")
        ELSE LET ok == ret /\ self.snt # None /\ exists(st, self.snt)
                 s1 == locate(st, grammar, self.snt, alphabet, match_mode, output_mode,
                              ok, made)
             IN  IF ~ok THEN raise(s1, "Locate failed!")
                 ELSE LET s2 == os_path_join(s1, self.dir, <<"concord", ".", "ind">>)
                          index == IF config.virtualization
                                   THEN <<VFS_PREFIX>> \o s2.result
                                   ELSE s2.result
                      IN  IF s2.err # NoErr THEN s2
                          ELSE return(s2, index)

\* ret: the engine reports success; made: it left the index file
_locate(st, self, grammar, match_mode, output_mode, ret, made) ==
    LET alphabet == config.resources.alphabet
    IN  IF st.err # NoErr THEN st
        ELSE IF alphabet = NoRes
        THEN raise(st, "Unable to locate pattern. No alphabet file provided.")
        ELSE IF match_mode \notin {MATCH_MODE_LONGEST, MATCH_MODE_SHORTEST}
        THEN raise(st, "Wrong value for the 'match_mode' option. UnitexConstants.MATCH_MODE_X required.")
        ELSE IF output_mode \notin {OUTPUT_MODE_IGNORE, OUTPUT_MODE_MERGE, OUTPUT_MODE_REPLACE}
        THEN raise(st, "Wrong value for the 'output_mode' option. UnitexConstants.OUTPUT_MODE_X required.")
        ELSE LET ok == ret /\ self.snt # None /\ exists(st, self.snt)
                 s1 == locate(st, grammar, self.snt, alphabet, match_mode, output_mode,
                              ok, made)
             IN  IF ~ok THEN raise(s1, "Locate failed!")
                 ELSE LET s2 == os_path_join(s1, self.dir, <<"concord", ".", "ind">>)
                          index == IF config.virtualization
                                   THEN <<VFS_PREFIX>> \o s2.result
                                   ELSE s2.result
                      IN  IF s2.err # NoErr THEN s2
                          ELSE IF ~exists(s2, index)
                          THEN raise(s2, "Locate failed! No index produced.")
                          ELSE return(s2, index)

\* the merge=True branch, the only one a handler takes
_concord(st, self, index, output, ret, made) ==
    LET alphabet == config.resources.alphabet
    IN  IF st.err # NoErr THEN st
        ELSE IF alphabet = NoRes
        THEN raise(st, "Unable to build concordance. No alphabet file provided.")
        ELSE IF output = None
        THEN raise(st, "You must provide the output file path to use the merge option.")
        ELSE LET s1 == concord(st, index, alphabet, output, ret, made)
             IN  IF ~ret THEN raise(s1, "Concord failed!")
                 ELSE IF ~exists(s1, output)
                 THEN raise(s1, "Concord failed! No concordances produced.")
                 ELSE return(s1, output)

(***************************************************************************)
(* UnitexProcessor.tofst, iter, tag                                        *)
(***************************************************************************)
\* the automaton files text.tfst and text.tind are not tracked in the stores
tofst(st, self, ret) ==
    LET alphabet == config.resources.alphabet
    IN  IF alphabet = NoRes
        THEN raise(st, "Unable to segment text. No alphabet file provided.")
        ELSE LET ok == ret /\ self.snt # None /\ exists(st, self.snt)
                 s1 == Invoke(st, Returned(Call("txt2tfst", self.snt, <<alphabet>>, <<>>),
                                           ok))
             IN  IF ~ok THEN raise(s1, "Text normalization failed!")
                 ELSE LET s2 == os_path_join(s1, self.dir, <<"text", ".", "tfst">>)
                          tfst == IF config.virtualization
                                  THEN <<VFS_PREFIX>> \o s2.result
                                  ELSE s2.result
                      IN  IF s2.err # NoErr THEN s2
                          ELSE return(Invoke(s2, Call("TextFST.load", tfst, <<>>, <<>>)), tfst)

\* UnitexFile(): open(path, "r"), read(), close(); content is what the
\* engine left in the file
read_file(st, path, content) ==
    IF st.err # NoErr THEN st
    ELSE return(Invoke(st, Call("unitex_read_file", path, <<>>, content)), content)

\* \s of the index pattern and the characters str.rstrip() removes
Whitespace == {" ", "\t", "\r", "\n"}

\* content.split("\n")
RECURSIVE split_lines(_)
split_lines(content) ==
    IF \A i \in DOMAIN content : content[i] # "\n" THEN <<content>>
    ELSE LET i == CHOOSE i \in DOMAIN content :
                     content[i] = "\n" /\ \A j \in 1..(i - 1) : content[j] # "\n"
         IN  <<SubSeq(content, 1, i - 1)>> \o split_lines(SubSeq(content, i + 1, Len(content)))

\* line.rstrip()
RECURSIVE rstrip(_)
rstrip(line) ==
    IF Len(line) > 0 /\ line[Len(line)] \in Whitespace
    THEN rstrip(SubSeq(line, 1, Len(line) - 1))
    ELSE line

\* the end of the run of non-whitespace characters that starts at i
RunEnd(line, i) ==
    CHOOSE j \in i..Len(line) :
        /\ \A k \in i..j : line[k] \notin Whitespace
        /\ j = Len(line) \/ line[j + 1] \in Whitespace

\* ([^\s]+) ([^\s]+) matches at i: both groups are taken greedily, and the one
\* character between them is a space
MatchesAt(line, i) ==
    /\ line[i] \notin Whitespace
    /\ LET j == RunEnd(line, i)
       IN  /\ j + 2 <= Len(line)
           /\ line[j + 1] = " "
           /\ line[j + 2] \notin Whitespace

\* ind.search(line) and match.groups(); the third group is None unless a
\* space follows the second
ind_search(line) ==
    IF \E i \in DOMAIN line : MatchesAt(line, i)
    THEN LET i == CHOOSE i \in DOMAIN line :
                     MatchesAt(line, i) /\ \A h \in 1..(i - 1) : ~MatchesAt(line, h)
             j == RunEnd(line, i)
             k == RunEnd(line, j + 2)
         IN  [found |-> TRUE,
              groups |-> << SubSeq(line, i, j), SubSeq(line, j + 2, k),
                            IF k < Len(line) /\ line[k + 1] = " "
                            THEN SubSeq(line, k + 2, Len(line)) ELSE None >>]
    ELSE [found |-> FALSE, groups |-> <<None, None, None>>]

yield(st, record) == [st EXCEPT !.yielded = Append(@, record)]

\* faulty variant of iter_lines: the match text is yielded whatever the mode
RECURSIVE iter_lines_keeps_match(_, _, _, _)
iter_lines_keeps_match(st, lines, n, output_mode) ==
    IF st.err # NoErr \/ n > Len(lines) THEN st
    ELSE LET line == rstrip(lines[n])
             match == ind_search(line)
         IN  IF line = <<>> THEN iter_lines_keeps_match(st, lines, n + 1, output_mode)
             ELSE IF ~match.found
             THEN raise(st, "AttributeError")
             ELSE iter_lines_keeps_match(
                      yield(st, [offsets |-> <<match.groups[1], match.groups[2]>>,
                                 match |-> match.groups[3]]),
                      lines, n + 1, output_mode)

\* the loop of iter over lines[n:]; a line the pattern does not match leaves
\* match None, and match.groups() raises
RECURSIVE iter_lines(_, _, _, _)
iter_lines(st, lines, n, output_mode) ==
    IF st.err # NoErr \/ n > Len(lines) THEN st
    ELSE LET line == rstrip(lines[n])
             match == ind_search(line)
         IN  IF line = <<>> THEN iter_lines(st, lines, n + 1, output_mode)
             ELSE IF ~match.found
             THEN raise(st, "AttributeError")
             ELSE iter_lines(
                      yield(st, [offsets |-> <<match.groups[1], match.groups[2]>>,
                                 match |-> IF output_mode = OUTPUT_MODE_IGNORE
                                           THEN <<>> ELSE match.groups[3]]),
                      lines, n + 1, output_mode)

\* faulty variant of iter_records: the header line is parsed with the others
iter_records_from_header(st, content, output_mode) ==
    iter_lines(st, split_lines(content), 1, output_mode)

\* lines = content.split("\n"); for line in lines[1:]
iter_records(st, content, output_mode) ==
    iter_lines(st, split_lines(content), 2, output_mode)

\* the generator run to its end; content is the index file the engine wrote
iter(st, self, grammar, match_mode, output_mode, ret, made, content) ==
    IF match_mode \notin {MATCH_MODE_LONGEST, MATCH_MODE_SHORTEST}
    THEN raise(st, "Invalid match mode '%s'...")
    ELSE IF output_mode \notin {OUTPUT_MODE_MERGE, OUTPUT_MODE_IGNORE, OUTPUT_MODE_REPLACE}
    THEN raise(st, "Invalid output mode '%s'...")
    ELSE LET s1 == _locate(st, self, grammar, match_mode, output_mode, ret, made)
             s2 == read_file(s1, s1.result, content)
         IN  IF s2.err # NoErr THEN s2
             ELSE return(iter_records(s2, s2.result, output_mode), None)

\* RULES: "&" becomes "&amp;"
RECURSIVE escape(_)
escape(sequence) ==
    IF sequence = <<>> THEN <<>>
    ELSE (IF Head(sequence) = "&" THEN <<"&", "a", "m", "p", ";">> ELSE <<Head(sequence)>>)
             \o escape(Tail(sequence))

\* "%s" % grammar
Format(grammar) == grammar.name[1]

\* faulty variant of write_tagged: the merged content is written as read
write_tagged_unescaped(st, grammar, output, merged, body) ==
    IF st.err # NoErr THEN st
    ELSE LET s1 == [Invoke(st, Call("open", output, <<>>, <<"w">>))
                        EXCEPT !.disk = @ \cup {output}]
             s2 == Invoke(s1, Call("write", output, <<>>,
                                   <<"<?xml version='1.0' encoding='UTF-8'?>", "\n">>))
             s3 == Invoke(s2, Call("write", output, <<>>,
                                   <<"<TAGFILE query='", Format(grammar), "'>", "\n">>))
             s4 == read_file(s3, merged, body)
             s5 == Invoke(s4, Call("write", output, <<>>, s4.result))
             s6 == Invoke(s5, Call("write", output, <<>>, <<"</TAGFILE>", "\n">>))
         IN  Invoke(s6, Call("close", output, <<>>, <<>>))

\* open(output, "w"), the writes around the merged content, close(); body is
\* the merged text the engine left in the temporary file
write_tagged(st, grammar, output, merged, body) ==
    IF st.err # NoErr THEN st
    ELSE LET s1 == [Invoke(st, Call("open", output, <<>>, <<"w">>))
                        EXCEPT !.disk = @ \cup {output}]
             s2 == Invoke(s1, Call("write", output, <<>>,
                                   <<"<?xml version='1.0' encoding='UTF-8'?>", "\n">>))
             s3 == Invoke(s2, Call("write", output, <<>>,
                                   <<"<TAGFILE query='", Format(grammar), "'>", "\n">>))
             s4 == read_file(s3, merged, body)
             s5 == Invoke(s4, Call("write", output, <<>>, escape(s4.result)))
             s6 == Invoke(s5, Call("write", output, <<>>, <<"</TAGFILE>", "\n">>))
         IN  Invoke(s6, Call("close", output, <<>>, <<>>))

\* faulty variant of tag: the temporary file is removed before it is read
tag_removes_first(st, self, grammar, output, xml, match_mode, output_mode, fail, body) ==
    IF match_mode \notin {MATCH_MODE_LONGEST, MATCH_MODE_SHORTEST}
    THEN raise(st, "Invalid match mode '%s'...")
    ELSE IF output_mode \notin {OUTPUT_MODE_IGNORE, OUTPUT_MODE_MERGE, OUTPUT_MODE_REPLACE}
    THEN raise(st, "Wrong value for the 'output_mode' option. UnitexConstants.OUTPUT_MODE_X required.")
    ELSE LET s1 == _locate(st, self, grammar, match_mode, output_mode,
                           fail # "locate", fail # "index")
             index == s1.result
         IN  IF s1.err # NoErr THEN s1
             ELSE IF ~xml
             THEN LET s2 == _concord(s1, self, index, output,
                                     fail # "concord", fail # "output")
                  IN  IF s2.err # NoErr THEN s2
                      ELSE IF ~exists(s2, output)
                      THEN raise(s2, "No tagged file produced!")
                      ELSE return(s2, <<"True">>)
             ELSE LET s2 == os_path_join(s1, self.dir,
                                         <<"concord-merge-temp", ".", "txt">>)
                      _output == IF config.virtualization
                                 THEN <<VFS_PREFIX>> \o s2.result
                                 ELSE s2.result
                      s3 == _concord(s2, self, index, _output,
                                     fail # "concord", fail # "output")
                  IN  IF s3.err # NoErr THEN s3
                      ELSE IF ~exists(s3, _output)
                      THEN raise(s3, "No (temporary) tagged file produced!")
                      ELSE return(write_tagged(rm(s3, _output), grammar, output,
                                               _output, body),
                                  <<"True">>)

\* fail: the step of the engine that goes wrong in this call, if it is reached
tag(st, self, grammar, output, xml, match_mode, output_mode, fail, body) ==
    IF match_mode \notin {MATCH_MODE_LONGEST, MATCH_MODE_SHORTEST}
    THEN raise(st, "Invalid match mode '%s'...")
    ELSE IF output_mode \notin {OUTPUT_MODE_IGNORE, OUTPUT_MODE_MERGE, OUTPUT_MODE_REPLACE}
    THEN raise(st, "Wrong value for the 'output_mode' option. UnitexConstants.OUTPUT_MODE_X required.")
    ELSE LET s1 == _locate(st, self, grammar, match_mode, output_mode,
                           fail # "locate", fail # "index")
             index == s1.result
         IN  IF s1.err # NoErr THEN s1
             ELSE IF ~xml
             THEN LET s2 == _concord(s1, self, index, output,
                                     fail # "concord", fail # "output")
                  IN  IF s2.err # NoErr THEN s2
                      ELSE IF ~exists(s2, output)
                      THEN raise(s2, "No tagged file produced!")
                      ELSE return(s2, <<"True">>)
             ELSE LET s2 == os_path_join(s1, self.dir,
                                         <<"concord-merge-temp", ".", "txt">>)
                      _output == IF config.virtualization
                                 THEN <<VFS_PREFIX>> \o s2.result
                                 ELSE s2.result
                      s3 == _concord(s2, self, index, _output,
                                     fail # "concord", fail # "output")
                  IN  IF s3.err # NoErr THEN s3
                      ELSE IF ~exists(s3, _output)
                      THEN raise(s3, "No (temporary) tagged file produced!")
                      ELSE return(rm(write_tagged(s3, grammar, output, _output, body),
                                     _output),
                                  <<"True">>)

(***************************************************************************)
(* State machine                                                           *)
(***************************************************************************)
\* the arguments of a handler, and the text path the session held on entry
NoArgs == [path |-> None, mode |-> <<>>, tagged |-> FALSE,
           clean |-> FALSE, free |-> FALSE,
           match_mode |-> "", output_mode |-> "", xml |-> FALSE,
           grammar |-> NoRes, target |-> None, fmode |-> None, use_bom |-> None,
           data |-> <<>>, entered |-> None, config |-> NoRes]

Args == [NoArgs EXCEPT !.entered = txt]

\* the stages open(path, mode, tagged) asks for
Requested(mode, tagged) ==
    {"normalize"}
        \cup (IF ~tagged /\ In("s", mode) THEN {"segment"} ELSE {})
        \cup (IF ~tagged /\ In("r", mode) THEN {"replace"} ELSE {})
        \cup (IF In("t", mode) THEN {"tokenize"} ELSE {})
        \cup (IF In("l", mode) THEN {"lexicalize"} ELSE {})

DictionaryLists ==
    {NoList, List(<<>>), List([i \in 1..MaxDicts |-> ResPath("dictionary", i)])}

Missing(r) ==
    Cardinality({k \in {"alphabet", "alphabet_sorted", "sentence", "replace"} : r[k] = NoRes})
        + (IF r.dictionaries = NoList \/ Len(r.dictionaries.items) = 0 THEN 1 ELSE 0)

AllConfigs ==
    [persistence : BOOLEAN, virtualization : BOOLEAN,
     resources : [alphabet : {NoRes, ResPath("alphabet", 0)},
                  alphabet_sorted : {NoRes, ResPath("alphabet-sorted", 0)},
                  sentence : {NoRes, ResPath("sentence", 0)},
                  replace : {NoRes, ResPath("replace", 0)},
                  dictionaries : DictionaryLists]]

\* every resource configured, exactly one left out, or none configured
Configs == {c \in AllConfigs : Missing(c.resources) \in {0, 1, 5}}

Commit(st) ==
    /\ calls' = st.calls
    /\ err' = st.err
    /\ disk' = st.disk
    /\ dirs' = st.dirs
    /\ vfs' = st.vfs
    /\ freed' = st.freed
    /\ result' = (IF st.err = NoErr THEN st.result ELSE None)
    /\ yielded' = st.yielded

\* __init__: the configuration as given, then _load
Init ==
    \E cfg \in Configs :
        LET ld == _load(cfg)
        IN  /\ config = ld.config
            /\ persisted_objects = ld.persisted_objects
            /\ loads = ld.loads
            /\ txt = None /\ snt = None /\ dir = None
            /\ disk = InputPaths /\ dirs = {} /\ vfs = {}
            /\ freed = [n \in ResourceNames |-> 0]
            /\ calls = <<>> /\ err = NoErr
            /\ op = "__init__" /\ args = [NoArgs EXCEPT !.config = cfg]
            /\ alive = TRUE
            /\ result = None /\ yielded = <<>>
            /\ file = UnitexFile

OpenOn(paths) ==
    \E path \in paths, m \in OpenModes :
      \E fail \in Requested(m[1], m[2]) \cup {"none"} :
        LET mode == m[1]
            tagged == m[2]
            self == open_session(Self, path)
            st == open(Enter, self, path, mode, tagged, fail)
        IN  /\ alive
            /\ txt' = self.txt /\ snt' = self.snt /\ dir' = self.dir
            /\ Commit(st)
            /\ op' = "open"
            /\ args' = [Args EXCEPT !.path = path, !.mode = mode,
                                      !.tagged = tagged]
            /\ UNCHANGED <<config, persisted_objects, loads, alive, file>>

Open == OpenOn(InputPaths)

CanFree == \A n \in ResourceNames : freed[n] < MaxFrees

\* faulty variant of Close: the session is reset only when it was cleaned
Close_reset_when_cleaned ==
    \E clean \in BOOLEAN, free \in BOOLEAN :
      \E listing \in Orderings(clean_listing(Self)) :
        LET st == close(Enter, Self, clean, free, listing)
        IN  /\ alive
            /\ free => CanFree
            /\ IF clean THEN txt' = None /\ snt' = None /\ dir' = None
                ELSE UNCHANGED <<txt, snt, dir>>
            /\ Commit(st)
            /\ op' = "close"
            /\ args' = [Args EXCEPT !.clean = clean, !.free = free]
            /\ UNCHANGED <<config, persisted_objects, loads, alive, file>>

Close ==
    \E clean \in BOOLEAN, free \in BOOLEAN :
      \E listing \in Orderings(clean_listing(Self)) :
        LET st == close(Enter, Self, clean, free, listing)
        IN  /\ alive
            /\ free => CanFree
            /\ txt' = None /\ snt' = None /\ dir' = None
            /\ Commit(st)
            /\ op' = "close"
            /\ args' = [Args EXCEPT !.clean = clean, !.free = free]
            /\ UNCHANGED <<config, persisted_objects, loads, alive, file>>

\* _free called on its own
Teardown ==
    /\ alive
    /\ CanFree
    /\ Commit(_free(Enter))
    /\ op' = "_free"
    /\ args' = Args
    /\ UNCHANGED <<config, persisted_objects, loads, txt, snt, dir, alive, file>>

\* __del__
Del ==
    /\ alive
    /\ Commit(_free(Enter))
    /\ alive' = FALSE
    /\ op' = "__del__"
    /\ args' = Args
    /\ UNCHANGED <<config, persisted_objects, loads, txt, snt, dir, file>>

Tofst ==
    \E ret \in BOOLEAN :
        /\ alive
        /\ Commit(tofst(Enter, Self, ret))
        /\ op' = "tofst"
        /\ args' = Args
        /\ UNCHANGED <<config, persisted_objects, loads, txt, snt, dir, alive, file>>

\* _locate called on its own
Locate ==
    \E m \in ModePairs, fail \in {"none", "locate", "index"} :
        /\ alive
        /\ Commit(_locate(Enter, Self, Grammar, m[1], m[2], fail # "locate", fail # "index"))
        /\ op' = "_locate"
        /\ args' = [Args EXCEPT !.match_mode = m[1], !.output_mode = m[2],
                                  !.grammar = Grammar]
        /\ UNCHANGED <<config, persisted_objects, loads, txt, snt, dir, alive, file>>

\* iter over an index file the engine draws from files
IterOn(files) ==
    \E m \in ModePairs, fail \in {"none", "locate", "index"}, content \in files :
        /\ alive
        /\ Commit(iter(Enter, Self, Grammar, m[1], m[2], fail # "locate", fail # "index",
                       content))
        /\ op' = "iter"
        /\ args' = [Args EXCEPT !.match_mode = m[1], !.output_mode = m[2],
                                  !.grammar = Grammar]
        /\ UNCHANGED <<config, persisted_objects, loads, txt, snt, dir, alive, file>>

Iter == IterOn(IndexFiles)

\* tag with a grammar from grammars and a merged text the engine draws from bodies
TagOn(grammars, bodies) ==
    \E m \in TagModePairs, xml \in BOOLEAN, grammar \in grammars, body \in bodies,
       fail \in {"none", "locate", "index", "concord", "output"} :
        /\ alive
        /\ Commit(tag(Enter, Self, grammar, TaggedOutput, xml, m[1], m[2], fail, body))
        /\ op' = "tag"
        /\ args' = [Args EXCEPT !.match_mode = m[1], !.output_mode = m[2], !.xml = xml,
                                  !.grammar = grammar, !.target = TaggedOutput]
        /\ UNCHANGED <<config, persisted_objects, loads, txt, snt, dir, alive, file>>

Tag == TagOn({Grammar}, MergedBodies)

(***************************************************************************)
(* The file gateway and the file handle called on their own                *)
(***************************************************************************)
CpOn(sources, targets) ==
    \E source_path \in sources, target_path \in targets :
        /\ Commit(cp(Enter, source_path, target_path))
        /\ op' = "cp"
        /\ args' = [Args EXCEPT !.path = source_path, !.target = target_path]
        /\ UNCHANGED <<config, persisted_objects, loads, txt, snt, dir, alive, file>>

Cp == CpOn(GatewayFiles, GatewayFiles)

Rm ==
    \E path \in GatewayFiles :
        /\ Commit(rm(Enter, path))
        /\ op' = "rm"
        /\ args' = [Args EXCEPT !.path = path]
        /\ UNCHANGED <<config, persisted_objects, loads, txt, snt, dir, alive, file>>

Mkdir ==
    /\ Commit(mkdir(Enter, WorkDir))
    /\ op' = "mkdir"
    /\ args' = [Args EXCEPT !.path = WorkDir]
    /\ UNCHANGED <<config, persisted_objects, loads, txt, snt, dir, alive, file>>

Rmdir ==
    /\ Commit(rmdir(Enter, WorkDir))
    /\ op' = "rmdir"
    /\ args' = [Args EXCEPT !.path = WorkDir]
    /\ UNCHANGED <<config, persisted_objects, loads, txt, snt, dir, alive, file>>

Exists ==
    \E path \in GatewayPaths :
        /\ Commit(io_exists(Enter, path))
        /\ op' = "exists"
        /\ args' = [Args EXCEPT !.path = path]
        /\ UNCHANGED <<config, persisted_objects, loads, txt, snt, dir, alive, file>>

FileOpen ==
    \E f \in {DiskFile, <<VFS_PREFIX>> \o DiskFile}, mode \in FileModes,
       use_bom \in {<<"True">>, <<"False">>} :
        LET h == UnitexFile_open(Enter, file, f, mode, use_bom)
        IN  /\ Commit(h.st)
            /\ file' = h.self
            /\ op' = "UnitexFile.open"
            /\ args' = [Args EXCEPT !.path = f, !.fmode = mode, !.use_bom = use_bom]
            /\ UNCHANGED <<config, persisted_objects, loads, txt, snt, dir, alive>>

FileClose ==
    LET h == UnitexFile_close(Enter, file)
    IN  /\ Commit(h.st)
        /\ file' = h.self
        /\ op' = "UnitexFile.close"
        /\ args' = Args
        /\ UNCHANGED <<config, persisted_objects, loads, txt, snt, dir, alive>>

FileWrite ==
    \E data \in {<<"d">>} :
        LET h == UnitexFile_write(Enter, file, data)
        IN  /\ Commit(h.st)
            /\ file' = h.self
            /\ op' = "UnitexFile.write"
            /\ args' = [Args EXCEPT !.data = data]
            /\ UNCHANGED <<config, persisted_objects, loads, txt, snt, dir, alive>>

FileRead ==
    LET h == UnitexFile_read(Enter, file)
    IN  /\ Commit(h.st)
        /\ file' = h.self
        /\ op' = "UnitexFile.read"
        /\ args' = Args
        /\ UNCHANGED <<config, persisted_objects, loads, txt, snt, dir, alive>>

Next == Open \/ Close \/ Tofst \/ Iter \/ Tag \/ Teardown \/ Del

Spec == Init /\ [][Next]_vars

\* open, close and teardown alone: no query is made on the corpus
NextSession == Open \/ Close \/ Teardown \/ Del

SpecSession == Init /\ [][NextSession]_vars

\* every handler, on a processor that neither persists nor virtualizes
InitPlain == Init /\ ~config.persistence /\ ~config.virtualization

SpecPlain == InitPlain /\ [][Next]_vars

\* every resource configured, nothing persisted
InitFull == Init /\ ~config.persistence /\ Missing(config.resources) = 0

\* the corpus and its queries, _locate included, without persistence: every
\* resource configured, or all but the alphabet
InitQuery ==
    /\ Init
    /\ ~config.persistence
    /\ \/ Missing(config.resources) = 0
       \/ Missing(config.resources) = 1 /\ config.resources.alphabet = NoRes

NextQuery == Open \/ Close \/ Locate \/ Iter \/ Tag

SpecQuery == InitQuery /\ [][NextQuery]_vars

\* one open, then one query on what the engine may have written
OpenOnce == op = "__init__" /\ Open

IterOnce == op = "open" /\ IterOn(AllIndexFiles)

TagOnce == op = "open" /\ TagOn(Grammars, AllBodies)

NextOnce == OpenOnce \/ IterOnce \/ TagOnce

SpecOnce == InitFull /\ [][NextOnce]_vars

\* unitex/io.py alone
InitGateway == InitFull /\ ~config.virtualization

NextGateway ==
    Cp \/ Rm \/ Mkdir \/ Rmdir \/ Exists \/ FileOpen \/ FileClose \/ FileWrite \/ FileRead

SpecGateway == InitGateway /\ [][NextGateway]_vars

\* one open of a corpus the caller may first have copied to another path
CpCorpus == op = "__init__" /\ CpOn({DiskFile}, CorpusPaths)

OpenCorpus == op \in {"__init__", "cp"} /\ OpenOn(CorpusPaths)

NextPaths == CpCorpus \/ OpenCorpus

SpecPaths == InitFull /\ [][NextPaths]_vars

(***************************************************************************)
(* Reading the call log                                                    *)
(***************************************************************************)
IsEngineCall(c) ==
    c.fn \in {"normalize", "fst2txt", "tokenize", "dico", "locate", "concord", "txt2tfst"}

IsRemoval(c) == c.fn \in {"ls", "rm", "rmdir"}

IsFree(c) ==
    c.fn \in {"free_persistent_fst2", "free_persistent_dictionary",
              "free_persistent_alphabet"}

StageOf(c) ==
    IF c.fn = "fst2txt" THEN (IF c.opt = <<"merge">> THEN "segment" ELSE "replace")
    ELSE IF c.fn = "dico" THEN "lexicalize"
    ELSE IF c.fn = "concord" THEN "concordance-build"
    ELSE IF c.fn = "txt2tfst" THEN "text-automaton-build"
    ELSE c.fn

EngineStages ==
    LET e == SelectSeq(calls, IsEngineCall)
    IN  [i \in 1..Len(e) |-> StageOf(e[i])]

Removals == SelectSeq(calls, IsRemoval)

Frees == SelectSeq(calls, IsFree)

\* the pipeline the documentation of open describes
ExpectedStages(mode, tagged) ==
    <<"normalize">>
        \o (IF In("s", mode) /\ ~tagged THEN <<"segment">> ELSE <<>>)
        \o (IF In("r", mode) /\ ~tagged THEN <<"replace">> ELSE <<>>)
        \o (IF In("t", mode) THEN <<"tokenize">> ELSE <<>>)
        \o (IF In("l", mode) THEN <<"lexicalize">> ELSE <<>>)

IsPrefixOf(p, q) == Len(p) <= Len(q) /\ p = SubSeq(q, 1, Len(p))

\* the paths of the two inputs, written out
VPath(p) == IF config.virtualization THEN <<VFS_PREFIX>> \o p ELSE p

SntPath == <<"corpus", "/", "foo", ".", "snt">>

SntDir == <<"corpus", "/", "foo", "_snt">>

Reopened == op = "open" /\ args.entered # None

ConfigErrors ==
    {"Unable to segment text. No sentence grammar provided.",
     "Unable to segment text. No alphabet file provided.",
     "Unable to normalize text. No replace grammar provided.",
     "Unable to normalize text. No alphabet file provided.",
     "Unable to tokenize text. No alphabet file provided.",
     "Unable to lexicalize text. No dictionaries provided."}

NoDictionaries ==
    config.resources.dictionaries = NoList \/ Len(config.resources.dictionaries.items) = 0

\* the stage needs a resource the configuration does not hold
LacksResource(stage) ==
    \/ stage \notin {"normalize"} /\ config.resources.alphabet = NoRes
    \/ stage = "segment" /\ config.resources.sentence = NoRes
    \/ stage = "replace" /\ config.resources.replace = NoRes
    \/ stage = "lexicalize" /\ NoDictionaries

C2_StageOrder ==
    (op = "open" /\ err = NoErr) => EngineStages = ExpectedStages(args.mode, args.tagged)

C2_Witness ==
    /\ op = "open" /\ err = NoErr
    /\ args.mode = <<"t", "s">> /\ ~args.tagged
    /\ EngineStages = <<"normalize", "segment", "tokenize">>

(***************************************************************************)
(* C3: a stage whose resource is absent.                                   *)
(***************************************************************************)
\* the resources the call was given are all present
HasResources(c) ==
    /\ \A k \in DOMAIN c.res : c.res[k] # NoRes
    /\ c.fn = "dico" => Len(c.res) >= 2

\* the handler asked for a stage that lacks a resource
AsksUnresourced ==
    \/ op = "open" /\ \E g \in Requested(args.mode, args.tagged) : LacksResource(g)
    \/ op \in {"tofst", "iter", "tag"} /\ config.resources.alphabet = NoRes

\* C3: segment, replace, tokenize, lexicalize, locate, concordance-build and
\* text-automaton-build are never invoked without the resources they need
\* (alphabet for all, the sentence grammar for segment, the replace grammar
\* for replace, a non-empty dictionary list for lexicalize), and a handler
\* that asks for such a stage ends with an error.
C3_NoStageWithoutResource ==
    /\ \A i \in DOMAIN calls :
          (IsEngineCall(calls[i]) /\ calls[i].fn # "normalize")
              => (HasResources(calls[i]) /\ ~LacksResource(StageOf(calls[i])))
    /\ AsksUnresourced => err # NoErr

C3_Witness ==
    /\ op = "open"
    /\ config.resources.dictionaries = List(<<>>)
    /\ err = "Unable to lexicalize text. No dictionaries provided."
    /\ EngineStages = <<"normalize", "segment", "replace", "tokenize">>

(***************************************************************************)
(* C4: open with a resource missing.                                       *)
(***************************************************************************)
\* C4 as stated: when open fails with a configuration error, no external
\* call has been made.
C4_NoCallBeforeConfigError ==
    (op = "open" /\ err \in ConfigErrors) => calls = <<>>

\* C4 amended: when open fails with a configuration error, the engine
\* function of the stage that lacks the resource has not been invoked, but
\* the calls before it have: the staging copy (when virtualized),
\* normalize, and every requested stage that precedes it.
C4_ConfigErrorAfterStaging ==
    (op = "open" /\ err \in ConfigErrors) =>
        LET expected == ExpectedStages(args.mode, args.tagged)
            done == EngineStages
        IN  /\ Len(done) >= 1 /\ Len(done) < Len(expected)
            /\ IsPrefixOf(done, expected)
            /\ LacksResource(expected[Len(done) + 1])
            /\ \A i \in DOMAIN calls : calls[i].ret \/ calls[i].fn = "cp"
            /\ txt = VPath(args.path)
            /\ config.virtualization => calls[1].fn = "cp"

C4_Witness ==
    /\ op = "open" /\ err = "Unable to segment text. No sentence grammar provided."
    /\ config.virtualization
    /\ calls[1].fn = "cp" /\ calls[2].fn = "mkdir" /\ calls[3].fn = "normalize"

(***************************************************************************)
(* C5: an engine stage of open reports failure.                            *)
(***************************************************************************)
StageFailures ==
    {"Text normalization failed!", "Text segmentation failed!",
     "Text tokenization failed!", "Text lexicalization failed!"}

FailedStage == \E i \in DOMAIN calls : IsEngineCall(calls[i]) /\ ~calls[i].ret

\* C5, the open that fails: a stage that reports failure is the last call
\* of open, open raises a processing error, no stage is invoked twice, and
\* the session paths stay set.
C5_FailureAborts ==
    op = "open" =>
        /\ \A i \in DOMAIN calls :
              (IsEngineCall(calls[i]) /\ ~calls[i].ret)
                  => (i = Len(calls) /\ err \in StageFailures)
        /\ \A i, j \in DOMAIN EngineStages :
              EngineStages[i] = EngineStages[j] => i = j
        /\ FailedStage => (txt # None /\ snt # None /\ dir # None)

\* C5, the close that follows: close(clean=True) after a failed open removes
\* the normalized text, the staged original (when virtualized) and the
\* working directory.
C5_CleanAfterFailure ==
    (op = "open" /\ FailedStage /\ op' = "close" /\ args'.clean) =>
        /\ \E i \in DOMAIN calls' : calls'[i].fn = "rm" /\ calls'[i].path = snt
        /\ \E i \in DOMAIN calls' : calls'[i].fn = "rmdir" /\ calls'[i].path = dir
        /\ config.virtualization
              => \E i \in DOMAIN calls' : calls'[i].fn = "rm" /\ calls'[i].path = txt
        /\ snt \notin disk' \cup vfs' /\ dir \notin dirs'
        /\ config.virtualization => txt \notin vfs'

\* C5: both parts
C5_FailedOpen == []C5_FailureAborts /\ [][C5_CleanAfterFailure]_vars

C5_Witness ==
    /\ op = "open" /\ err = "Text tokenization failed!"
    /\ EngineStages = <<"normalize", "segment", "replace", "tokenize">>
    /\ snt \in disk \cup vfs /\ dir \in dirs

(***************************************************************************)
(* C6: the session after close.                                            *)
(***************************************************************************)
\* C6: after close, whatever clean and free were and whatever the session
\* was on entry, the three session paths are unset; and an open on a closed
\* session is accepted: it sets the paths and starts the pipeline.
C6_ClosedAfterClose ==
    /\ op = "close" => (txt = None /\ snt = None /\ dir = None)
    /\ (op = "open" /\ args.entered = None)
          => (txt = VPath(args.path) /\ snt = VPath(SntPath) /\ dir = SntDir
              /\ \E i \in DOMAIN calls : calls[i].fn = "normalize")

C6_Witness ==
    op = "close" /\ args.entered # None /\ ~args.clean /\ args.free /\ txt = None

(***************************************************************************)
(* C7: the removals of close(clean=True) on a virtualized session.         *)
(***************************************************************************)
\* C7: close(clean=True) on an open virtualized session lists the virtual
\* working directory, removes every entry listed, then the normalized text,
\* then the staged original, and last the working directory; the directory
\* is removed once, after every file removal.
C7_Step ==
    (op' = "close" /\ args'.clean /\ config.virtualization /\ txt # None) =>
        LET r == SelectSeq(calls', IsRemoval)
            n == Len(r)
        IN  /\ n >= 4
            /\ r[1].fn = "ls" /\ r[1].path = <<VFS_PREFIX>> \o dir
            /\ \A i \in 2..(n - 1) : r[i].fn = "rm"
            /\ {r[i].path : i \in 2..(n - 3)} = ls(vfs, <<VFS_PREFIX>> \o dir)
            /\ n - 4 = Cardinality(ls(vfs, <<VFS_PREFIX>> \o dir))
            /\ r[n - 2].path = snt
            /\ r[n - 1].path = txt
            /\ r[n].fn = "rmdir" /\ r[n].path = dir

C7_CleanOrder == [][C7_Step]_vars

C7_Witness ==
    /\ op = "close" /\ args.clean /\ config.virtualization /\ args.entered # None
    /\ Len(Removals) = 6
    /\ Removals[6].fn = "rmdir"

(***************************************************************************)
(* C8: close(clean=False).                                                 *)
(***************************************************************************)
\* C8: close(clean=False) invokes no listing and no removal, and the disk
\* files, the disk directories and the virtual files are what they were.
C8_Step ==
    (op' = "close" /\ ~args'.clean) =>
        /\ \A i \in DOMAIN calls' : ~IsRemoval(calls'[i])
        /\ disk' = disk /\ dirs' = dirs /\ vfs' = vfs

C8_KeepsArtifacts == [][C8_Step]_vars

C8_Witness ==
    /\ op = "close" /\ ~args.clean /\ args.entered # None /\ config.virtualization
    /\ SntDir \in dirs
    /\ {args.entered, VPath(SntPath), VPath(SntDir \o <<"/", "tokens", ".", "txt">>)}
          \subseteq vfs

(***************************************************************************)
(* C9: how often a persistent handle is freed.                             *)
(***************************************************************************)
Loaded == {loads[j].path.name : j \in DOMAIN loads}

\* C9: every handle loaded at initialization is freed exactly once over the
\* life of the processor: never twice, and once by the time it is destroyed.
C9_FreedExactlyOnce ==
    /\ \A n \in Loaded : freed[n] <= 1
    /\ ~alive => \A n \in Loaded : freed[n] = 1

(***************************************************************************)
(* C10: the free operation of each handle.                                 *)
(***************************************************************************)
MatchingFree(load) ==
    IF load = "load_persistent_alphabet" THEN "free_persistent_alphabet"
    ELSE IF load = "load_persistent_fst2" THEN "free_persistent_fst2"
    ELSE "free_persistent_dictionary"

TearsDown == op \in {"_free", "__del__"} \/ (op = "close" /\ args.free)

\* C10: a teardown frees the tracked handles, each with the free operation
\* of the kind it was loaded as (the sorted alphabet with the alphabet
\* free), in the order they were loaded; no other handler frees anything,
\* and without persistence nothing is loaded and nothing is freed.
C10_MatchingFree ==
    /\ TearsDown =>
          /\ Len(Frees) = Len(loads)
          /\ \A i \in DOMAIN Frees :
                /\ Frees[i].res[1].name = loads[i].path.name
                /\ Frees[i].fn = MatchingFree(loads[i].fn)
    /\ ~TearsDown => Frees = <<>>
    /\ ~config.persistence => (loads = <<>> /\ Frees = <<>>)

C10_Witness ==
    /\ op = "close" /\ args.free /\ config.persistence
    /\ Len(Frees) = 4 + MaxDicts
    /\ Frees[2].fn = "free_persistent_alphabet"
    /\ Frees[2].res[1].name = <<"alphabet-sorted", 0>>

(***************************************************************************)
(* C11: after __init__ with persistence, every configured resource has     *)
(* been loaded exactly once, its configuration entry holds the handle the  *)
(* load returned, and the tracked list holds exactly those handles;        *)
(* without persistence nothing is loaded and the configuration is as given *)
(***************************************************************************)
ResourceKeys == {"alphabet", "alphabet_sorted", "sentence", "replace"}

\* the paths the configuration given to __init__ names
Configured(cfg) ==
    {cfg.resources[k] : k \in {k \in ResourceKeys : cfg.resources[k] # NoRes}}
        \cup {cfg.resources.dictionaries.items[i] :
                  i \in DOMAIN cfg.resources.dictionaries.items}

HandleOf(path) == [tag |-> "handle", name |-> path.name]

LoadsOf(path) == {i \in DOMAIN loads : loads[i].path = path}

C11_LoadedAtInit ==
    op = "__init__" =>
        LET cfg == args.config
        IN  IF cfg.persistence
            THEN /\ \A path \in Configured(cfg) : Cardinality(LoadsOf(path)) = 1
                 /\ Len(loads) = Cardinality(Configured(cfg))
                 /\ \A k \in ResourceKeys :
                        config.resources[k] =
                            IF cfg.resources[k] = NoRes THEN NoRes
                            ELSE HandleOf(cfg.resources[k])
                 /\ config.resources.dictionaries.tag = cfg.resources.dictionaries.tag
                 /\ Len(config.resources.dictionaries.items)
                        = Len(cfg.resources.dictionaries.items)
                 /\ \A i \in DOMAIN cfg.resources.dictionaries.items :
                        config.resources.dictionaries.items[i]
                            = HandleOf(cfg.resources.dictionaries.items[i])
                 /\ persisted_objects.tag = "list"
                 /\ Len(persisted_objects.items) = Cardinality(Configured(cfg))
                 /\ {persisted_objects.items[i].object : i \in DOMAIN persisted_objects.items}
                        = {HandleOf(path) : path \in Configured(cfg)}
            ELSE /\ loads = <<>>
                 /\ config = cfg
                 /\ persisted_objects = NoList

C11_Witness ==
    /\ op = "__init__"
    /\ config.persistence
    /\ Len(loads) = 4 + MaxDicts
    /\ config.resources.sentence.tag = "handle"


(***************************************************************************)
(* C12: _locate, called on its own or through iter or tag, with a match    *)
(* mode or an output mode that is not recognized raises before any         *)
(* external call: neither the locate stage nor the concordance stage runs  *)
(***************************************************************************)
Locates == {"_locate", "iter", "tag"}

UnrecognizedMode ==
    \/ args.match_mode \notin {MATCH_MODE_LONGEST, MATCH_MODE_SHORTEST}
    \/ args.output_mode \notin {OUTPUT_MODE_IGNORE, OUTPUT_MODE_MERGE, OUTPUT_MODE_REPLACE}

C12_ModesValidatedFirst ==
    op \in Locates /\ UnrecognizedMode =>
        /\ err # NoErr
        /\ calls = <<>>
        /\ result = None
        /\ yielded = <<>>

\* a call the engine would have served: alphabet configured, text normalized
C12_Witness ==
    /\ op = "_locate"
    /\ UnrecognizedMode
    /\ err # NoErr
    /\ config.resources.alphabet # NoRes
    /\ snt # None
    /\ snt \in disk \cup vfs


(***************************************************************************)
(* C13: _locate returns a path only when the locate stage reported success *)
(* and the index file exists afterwards; the path is concord.ind in the    *)
(* working directory, with the virtual prefix iff virtualization is on; if *)
(* the stage reports failure or the index is absent, _locate raises and    *)
(* returns no path                                                         *)
(***************************************************************************)
IndexPath ==
    (IF config.virtualization THEN <<VFS_PREFIX>> ELSE <<>>)
        \o dir \o <<"/", "concord", ".", "ind">>

LocateCalls == {i \in DOMAIN calls : calls[i].fn = "locate"}

IndexPresent ==
    dir # None /\ IndexPath \in (IF config.virtualization THEN vfs ELSE disk)

C13_IndexReturned ==
    op = "_locate" =>
        /\ result # None =>
               /\ err = NoErr
               /\ \E i \in LocateCalls : calls[i].ret
               /\ IndexPresent
               /\ result = IndexPath
        /\ (\E i \in LocateCalls : ~calls[i].ret) \/ ~IndexPresent =>
               /\ err # NoErr
               /\ result = None
        /\ err = NoErr => result # None

\* a path returned with the virtual prefix
C13_Witness ==
    /\ op = "_locate"
    /\ config.virtualization
    /\ result # None
    /\ result[1] = VFS_PREFIX


(***************************************************************************)
(* C14: a file handle that has a file open rejects a second open with an   *)
(* error and keeps its path and mode; open is accepted only on a handle    *)
(* that has no file open, that is a new one or one that was closed         *)
(***************************************************************************)
C14_Step ==
    op' = "UnitexFile.open" =>
        IF file.path # None
        THEN /\ err' # NoErr
             /\ file' = file
        ELSE /\ err' = NoErr
             /\ file'.path = args'.path

C14_SecondOpenRejected == [][C14_Step]_vars

\* an open of another file was refused: the handle still has the first
C14_Witness ==
    /\ op = "UnitexFile.open"
    /\ err # NoErr
    /\ file.path # None
    /\ file.path # args.path

(***************************************************************************)
(* C15: write reaches the storage backend only on a handle opened in mode  *)
(* "w" or "a", read only on one opened in mode "r" or "b", "r" being the   *)
(* mode of an open that names none; in every other case, no file open      *)
(* included, the call raises and the backend is not called                 *)
(***************************************************************************)
BackendOf(mode) ==
    IF mode = <<"w">> THEN "unitex_write_file"
    ELSE IF mode = <<"a">> THEN "unitex_append_to_file"
    ELSE IF mode = <<"r">> THEN "unitex_read_file"
    ELSE "unitex_read_binary_file"

\* the handler made one call, the backend call of the mode, on the open file
ReachedBackend ==
    /\ err = NoErr
    /\ Len(calls) = 1
    /\ calls[1].fn = BackendOf(file.mode)
    /\ calls[1].path = file.path

Refused == err # NoErr /\ calls = <<>> /\ result = None

C15_ModeDiscipline ==
    /\ op = "UnitexFile.write" =>
           IF file.path # None /\ file.mode \in {<<"w">>, <<"a">>}
           THEN ReachedBackend ELSE Refused
    /\ op = "UnitexFile.read" =>
           IF file.path # None /\ file.mode \in {<<"r">>, <<"b">>}
           THEN ReachedBackend ELSE Refused
    /\ op = "UnitexFile.open" /\ err = NoErr =>
           file.mode = IF args.fmode = None THEN <<"r">> ELSE args.fmode

\* a write on a handle opened for reading
C15_Witness ==
    /\ op = "UnitexFile.write"
    /\ file.path # None
    /\ file.mode = <<"r">>
    /\ Refused


(***************************************************************************)
(* Reading an index file by positions: its lines, their tokens             *)
(***************************************************************************)
\* the n-th smallest element of a set of numbers
NthOf(S, n) == CHOOSE x \in S : Cardinality({y \in S : y <= x}) = n

Newlines(c) == {i \in DOMAIN c : c[i] = "\n"}

\* the characters of c that have n - 1 newlines before them
NthLine(c, n) ==
    LET at == {i \in DOMAIN c :
                   c[i] # "\n" /\ Cardinality({j \in Newlines(c) : j < i}) = n - 1}
    IN  IF at = {} THEN <<>>
        ELSE SubSeq(c, NthOf(at, 1), NthOf(at, Cardinality(at)))

Blank(line) == \A i \in DOMAIN line : line[i] \in Whitespace

\* the lines after the first that are not blank, by their number
RecordLines(c) ==
    {n \in 2..(Cardinality(Newlines(c)) + 1) : ~Blank(NthLine(c, n))}

TokenStarts(line) ==
    {i \in DOMAIN line : line[i] \notin Whitespace /\ (i = 1 \/ line[i - 1] \in Whitespace)}

TokenEnds(line) ==
    {i \in DOMAIN line :
         line[i] \notin Whitespace /\ (i = Len(line) \/ line[i + 1] \in Whitespace)}

NthToken(line, n) == SubSeq(line, NthOf(TokenStarts(line), n), NthOf(TokenEnds(line), n))

\* what follows the second token and the character after it, up to the last
\* character that is not white space; None if nothing does
Remainder(line) ==
    LET second == NthOf(TokenEnds(line), 2)
        last == NthOf(TokenEnds(line), Cardinality(TokenEnds(line)))
    IN  IF last <= second THEN None ELSE SubSeq(line, second + 2, last)

\* the content the handler read from a file
HasRead == \E i \in DOMAIN calls : calls[i].fn = "unitex_read_file"

ContentRead == calls[CHOOSE i \in DOMAIN calls : calls[i].fn = "unitex_read_file"].opt

\* the line the k-th record comes from
RecordLine(k) == NthLine(ContentRead, NthOf(RecordLines(ContentRead), k))

(***************************************************************************)
(* C16: iter yields one record for each line after the header that is not  *)
(* blank, in the order of the file, and none for the header; with output   *)
(* mode merge or replace the offsets of a record are the first two tokens  *)
(* of its line and its match is the rest of the line                       *)
(***************************************************************************)
C16_OneRecordPerLine ==
    op = "iter" =>
        IF HasRead
        THEN /\ err = NoErr
             /\ Len(yielded) = Cardinality(RecordLines(ContentRead))
             /\ \A k \in DOMAIN yielded :
                    /\ yielded[k].offsets
                           = <<NthToken(RecordLine(k), 1), NthToken(RecordLine(k), 2)>>
                    /\ args.output_mode \in {OUTPUT_MODE_MERGE, OUTPUT_MODE_REPLACE} =>
                           yielded[k].match = Remainder(RecordLine(k))
        ELSE yielded = <<>>

\* two records, the first with a match of several words, the second with
\* none, from a file whose header reads like a record
C16_Witness ==
    /\ op = "iter"
    /\ HasRead
    /\ args.output_mode = OUTPUT_MODE_MERGE
    /\ Len(yielded) = 2
    /\ ContentRead[1] = "0"
    /\ yielded[1] = [offsets |-> << <<"1", "1">>, <<"5">> >>, match |-> <<"H", " ", "W">>]
    /\ yielded[2] = [offsets |-> << <<"0">>, <<"5">> >>, match |-> None]

(***************************************************************************)
(* C17: with output mode ignore every record iter yields has the empty     *)
(* string as its match, whatever follows the offsets on its line, and its  *)
(* offsets are still the first two tokens of the line                      *)
(***************************************************************************)
C17_IgnoreYieldsNoMatch ==
    op = "iter" /\ args.output_mode = OUTPUT_MODE_IGNORE =>
        \A k \in DOMAIN yielded :
            /\ yielded[k].match = <<>>
            /\ HasRead
            /\ yielded[k].offsets
                   = <<NthToken(RecordLine(k), 1), NthToken(RecordLine(k), 2)>>

\* a record from a line that carries text after its offsets
C17_Witness ==
    /\ op = "iter"
    /\ args.output_mode = OUTPUT_MODE_IGNORE
    /\ HasRead
    /\ Len(yielded) > 0
    /\ Remainder(RecordLine(1)) = <<"H", " ", "W">>
    /\ yielded[1].match = <<>>


(***************************************************************************)
(* C18: tag with xml=True calls locate, then the concordance merge into    *)
(* concord-merge-temp.txt of the working directory, then writes the output *)
(* file, then removes the temporary file; when it returns True the         *)
(* temporary file is gone and the output file was written to its end and   *)
(* closed; the temporary file is never removed before it was read          *)
(***************************************************************************)
TempPath ==
    (IF config.virtualization THEN <<VFS_PREFIX>> ELSE <<>>)
        \o dir \o <<"/", "concord-merge-temp", ".", "txt">>

\* the step of tag a call belongs to
StepOf(c) ==
    IF c.fn = "locate" THEN 1
    ELSE IF c.fn = "concord" THEN 2
    ELSE IF c.fn = "rm" THEN 4
    ELSE 3

Fns == [i \in DOMAIN calls |-> calls[i].fn]

C18_TagXmlOrder ==
    op = "tag" /\ args.xml =>
        /\ \A i \in DOMAIN calls, j \in DOMAIN calls :
               i < j => StepOf(calls[i]) <= StepOf(calls[j])
        /\ \A i \in DOMAIN calls :
               /\ calls[i].fn = "concord" => calls[i].opt = TempPath
               /\ calls[i].fn = "rm" =>
                      /\ calls[i].path = TempPath
                      /\ \E j \in 1..(i - 1) :
                             /\ calls[j].fn = "unitex_read_file"
                             /\ calls[j].path = TempPath
        /\ result = <<"True">> =>
               /\ Fns = << "locate", "concord", "open", "write", "write",
                           "unitex_read_file", "write", "write", "close", "rm" >>
               /\ \A i \in 3..9 : calls[i].fn # "unitex_read_file" =>
                                      calls[i].path = args.target
               /\ TempPath \notin disk \cup vfs
               /\ args.target \in disk

\* a tagged file written from a temporary file of the virtual store
C18_Witness ==
    /\ op = "tag"
    /\ args.xml
    /\ config.virtualization
    /\ result = <<"True">>
    /\ \E i \in DOMAIN calls : calls[i].fn = "rm" /\ calls[i].path[1] = VFS_PREFIX

(***************************************************************************)
(* C19: what tag with xml=True writes is the XML declaration line, the     *)
(* opening TAGFILE element with the grammar as its query attribute, the    *)
(* merged text with every "&" replaced by "&amp;" and every other          *)
(* character unchanged and in place, and the closing TAGFILE element       *)
(***************************************************************************)
WriteCalls == {i \in DOMAIN calls : calls[i].fn = "write"}

\* the number of "&" among the first i - 1 characters of b
AmpsBefore(b, i) == Cardinality({j \in 1..(i - 1) : b[j] = "&"})

\* where the i-th character of b goes
PlaceOf(b, i) == i + 4 * AmpsBefore(b, i)

IsEscaped(e, b) ==
    /\ Len(e) = Len(b) + 4 * AmpsBefore(b, Len(b) + 1)
    /\ \A i \in DOMAIN b :
           /\ e[PlaceOf(b, i)] = b[i]
           /\ b[i] = "&" =>
                  SubSeq(e, PlaceOf(b, i) + 1, PlaceOf(b, i) + 4) = <<"a", "m", "p", ";">>

C19_TaggedXml ==
    op = "tag" /\ args.xml /\ result = <<"True">> =>
        /\ Cardinality(WriteCalls) = 4
        /\ \A i \in WriteCalls : calls[i].path = args.target
        /\ calls[NthOf(WriteCalls, 1)].opt
               = <<"<?xml version='1.0' encoding='UTF-8'?>", "\n">>
        /\ calls[NthOf(WriteCalls, 2)].opt
               = <<"<TAGFILE query='", args.grammar.name[1], "'>", "\n">>
        /\ HasRead
        /\ IsEscaped(calls[NthOf(WriteCalls, 3)].opt, ContentRead)
        /\ calls[NthOf(WriteCalls, 4)].opt = <<"</TAGFILE>", "\n">>

\* a merged text with two "&", one of them already followed by ";"
C19_Witness ==
    /\ op = "tag"
    /\ args.xml
    /\ result = <<"True">>
    /\ args.grammar = ResPath("tagger", 0)
    /\ HasRead
    /\ ContentRead = <<"&", ";", "&">>
    /\ calls[NthOf(WriteCalls, 3)].opt
           = <<"&", "a", "m", "p", ";", ";", "&", "a", "m", "p", ";">>


(***************************************************************************)
(* C20: exists(p) routes on the prefix of p alone: for a path that begins  *)
(* with the virtual prefix the result is the membership of p in ls(p) and  *)
(* the disk is not consulted; for any other path the result is the         *)
(* existence of p on the disk and the virtual store is not consulted       *)
(***************************************************************************)
Truth(b) == IF b THEN <<"True">> ELSE <<"False">>

C20_ExistsRoutes ==
    op = "exists" =>
        /\ err = NoErr
        /\ Len(calls) = 1
        /\ calls[1].path = args.path
        /\ IF args.path[1] = VFS_PREFIX
           THEN /\ calls[1].fn = "ls"
                /\ result = Truth(args.path \in ls(vfs, args.path))
           ELSE /\ calls[1].fn = "os.path.exists"
                /\ result = Truth(args.path \in disk \cup dirs)

\* a virtual path that is not in the virtual store while the file of the
\* same name is on the disk
C20_Witness ==
    /\ op = "exists"
    /\ args.path = <<VFS_PREFIX>> \o DiskFile
    /\ DiskFile \in disk
    /\ result = <<"False">>

\* C21: open on an input path dir/name.ext derives the normalized-text path
\* dir/name.snt and the working directory dir/name_snt: only the last extension
\* is replaced and the directory part is kept; with virtualization the text and
\* normalized-text paths carry the virtual prefix.
C21_DerivedPaths ==
    op = "open" =>
        \E r \in CorpusParts :
            /\ PathOf(r) = args.path
            /\ txt = VPath(args.path)
            /\ snt = VPath(DirectoryPrefix(r) \o r.name \o <<".", "snt">>)
            /\ dir = DirectoryPrefix(r) \o r.name \o <<"_snt">>

C21_Witness ==
    /\ op = "open" /\ err = NoErr /\ config.virtualization
    /\ args.path = <<"a", "/", "b", "/", "foo", ".", "tar", ".", "gz">>
    /\ snt = <<VFS_PREFIX, "a", "/", "b", "/", "foo", ".", "tar", ".", "snt">>
    /\ dir = <<"a", "/", "b", "/", "foo", ".", "tar", "_snt">>

(***************************************************************************)
(* C22: handles passed to the engine stages.  No handler that invokes a    *)
(* stage frees a handle, so the handles freed when the handler returns are *)
(* those freed when the stage was called.                                  *)
(***************************************************************************)
HandlesOf(c) == {c.res[k].name : k \in {j \in DOMAIN c.res : c.res[j].tag = "handle"}}

\* C22: no engine stage is invoked with a persistent resource handle that has
\* already been freed: every handle passed to a stage is still loaded at the
\* time of the call.
C22_NoStageOnFreedHandle ==
    \A i \in DOMAIN calls :
        IsEngineCall(calls[i]) => \A n \in HandlesOf(calls[i]) : freed[n] = 0

(***************************************************************************)
(* C23: close(clean=True) without virtualization.  The session's text path *)
(* is then the input path given to open.                                   *)
(***************************************************************************)
\* C23: with virtualization disabled, close(clean=True) removes from disk only
\* the derived normalized file and the working directory, and never the
\* caller's original input file, whatever the input path given to open.
C23_Step ==
    (op' = "close" /\ args'.clean /\ ~config.virtualization /\ txt # None) =>
        LET r == SelectSeq(calls', IsRemoval)
        IN  /\ Len(r) = 2
            /\ r[1].fn = "rm" /\ r[1].path = snt
            /\ r[2].fn = "rmdir" /\ r[2].path = dir
            /\ \A f \in disk \ disk' : f = snt \/ startswith(f, dir \o <<"/">>)
            /\ \A i \in DOMAIN r : r[i].path # txt
            /\ txt \in disk => txt \in disk'

C23_InputKept == [][C23_Step]_vars

(***************************************************************************)
(* C24: the queries on a Closed session (no text path on entry).           *)
(***************************************************************************)
\* C24: iter, tag and tofst invoked while the session is Closed fail at once
\* with an error, without invoking any engine stage (locate, concordance
\* build, text-automaton build) and without changing the session state.
C24_ClosedQueryRejected ==
    (op \in {"iter", "tag", "tofst"} /\ args.entered = None) =>
        /\ err # NoErr
        /\ \A i \in DOMAIN calls : ~IsEngineCall(calls[i])
        /\ txt = None /\ snt = None /\ dir = None

====
